---- MODULE Spec2Model ----
(***************************************************************************)
(* The Drain log-template miner of pkg/pattern/drain/drain.go as a state   *)
(* machine: the prefix tree, the LRU cluster cache, the clusters and the    *)
(* token slice a caller of TrainTokens / MatchTokens keeps.                 *)
(*                                                                          *)
(* Go slices are references.  train stores the caller's slice in the        *)
(* cluster it creates (Tokens: tokens), so the slice the caller holds and   *)
(* the template of that cluster are one array; every assignment to an       *)
(* element is modelled on the array, i.e. on all its holders.  A cluster's   *)
(* Array is 0 when no one else holds the array of its Tokens, and else the   *)
(* label of the array: the smallest id among the clusters holding it.        *)
(***************************************************************************)
EXTENDS Integers, Sequences, FiniteSets, TLC

VARIABLES
    config,           \* Drain.config
    rootNode,         \* Drain.rootNode: the tree, path of edge keys -> Node.clusterIDs
    idToCluster,      \* Drain.idToCluster: the LRU's entries, oldest first
    clustersCounter,  \* Drain.clustersCounter
    callerTokens,     \* the []string the caller passed to its last TrainTokens/MatchTokens
    callerArray,      \* the array of that slice: 0, or the label it shares with clusters
    panicked,         \* a panic (length mismatch, nil node) was raised
    lastCall,         \* what the last call was given and what it returned
    trainOrder,       \* history: live ids, least recently trained first
    deletedIds,       \* history: ids removed from the store by Delete
    trainCalls        \* history: number of training calls made

vars == <<config, rootNode, idToCluster, clustersCounter, callerTokens,
          callerArray, panicked, lastCall, trainOrder, deletedIds, trainCalls>>

----------------------------------------------------------------------------
(* Bounds of the model *)

\* Training calls (Train, TrainTokens, TrainPattern) in one behaviour.
MaxTrainCalls == 3

----------------------------------------------------------------------------
(* Program constants *)

\* train: a token longer than this many bytes is clipped
MaxTokenLen == 50

\* createLogClusterCache: math.MaxInt, the capacity that stands for "unbounded"
\* (2^63-1 in the program; the largest integer of the checker is 2^31-1)
MaxInt == 2147483647

\* Config.ParamString of DefaultConfig
ParamString == "<_>"

\* Stand-in for the byte 0x00 that marks a token as "match exactly"; a string
\* literal of this language cannot hold the byte itself.
MarkerByte == "#"

\* token[0] == 0 of getSeqDistance
IsMarked(token) == Len(token) > 0 /\ SubSeq(token, 1, 1) = MarkerByte

\* strconv.Itoa on the token counts that occur
Itoa(n) ==
    CASE n = 0 -> "0" [] n = 1 -> "1" [] n = 2 -> "2" [] n = 3 -> "3"
      [] n = 4 -> "4" [] n = 5 -> "5" [] OTHER -> "many"

\* tokenization.Preprocess(token, true, true): the normaliser.  Pure and
\* idempotent; it collapses number-like tokens to one canonical token.
Preprocess(token) ==
    IF token \in {"v1", "v2", "<N>"} THEN "<N>" ELSE token

----------------------------------------------------------------------------
(* The LRU (simplelru.LRU behind LogClusterCache): a list of clusters,      *)
(* oldest first, as Keys() returns them.                                    *)

CacheHas(cache, key) == \E k \in 1..Len(cache) : cache[k].id = key

CacheIndex(cache, key) == CHOOSE k \in 1..Len(cache) : cache[k].id = key

\* Peek: the value, recency untouched
CachePeek(cache, key) == cache[CacheIndex(cache, key)]

CacheKeys(cache) == [k \in 1..Len(cache) |-> cache[k].id]

LiveIds(cache) == {cache[k].id : k \in 1..Len(cache)}

RemoveAt(s, k) == SubSeq(s, 1, k - 1) \o SubSeq(s, k + 1, Len(s))

\* LogClusterCache.Get -> simplelru Get: a hit moves the entry to the front
\* (the newest end)
CacheGet(cache, key) ==
    IF CacheHas(cache, key)
    THEN LET k == CacheIndex(cache, key) IN Append(RemoveAt(cache, k), cache[k])
    ELSE cache

\* createLogClusterCache: maxSize 0 means math.MaxInt
CacheSize(maxSize) == IF maxSize = 0 THEN MaxInt ELSE maxSize

\* a Set whose eviction comes one entry late
CacheSetLate(cache, cluster, size) ==
    IF CacheHas(cache, cluster.id)
    THEN Append(RemoveAt(cache, CacheIndex(cache, cluster.id)), cluster)
    ELSE LET added == Append(cache, cluster)
         IN  IF Len(added) - 1 > size THEN Tail(added) ELSE added

\* LogClusterCache.Set -> simplelru Add: a new entry goes to the front and the
\* oldest entry is removed when the list is longer than the size
CacheSet(cache, cluster, size) ==
    IF CacheHas(cache, cluster.id)
    THEN Append(RemoveAt(cache, CacheIndex(cache, cluster.id)), cluster)
    ELSE LET added == Append(cache, cluster)
         IN  IF Len(added) > size THEN Tail(added) ELSE added

\* cache.Remove (Delete)
CacheRemove(cache, key) ==
    IF CacheHas(cache, key) THEN RemoveAt(cache, CacheIndex(cache, key)) ELSE cache

----------------------------------------------------------------------------
(* The tree: a node is the path of edge keys from the root; the tree maps   *)
(* each existing node to its clusterIDs.                                    *)

IsPrefix(a, b) == Len(a) <= Len(b) /\ SubSeq(b, 1, Len(a)) = a

\* the children of a node
ChildNodes(tree, node) ==
    {p \in DOMAIN tree : Len(p) = Len(node) + 1 /\ IsPrefix(node, p)}

\* maps.Keys(node.keyToChildNode)
ChildKeys(tree, node) == {p[Len(p)] : p \in ChildNodes(tree, node)}

\* _, ok := node.keyToChildNode[key]
HasChild(tree, node, key) == Append(node, key) \in DOMAIN tree

\* createNode under key
AddChild(tree, node, key) == (Append(node, key) :> <<>>) @@ tree

\* a rename that leaves the child under its old key as well
RenameChildCopy(tree, node, from, to) ==
    LET old   == Append(node, from)
        new   == Append(node, to)
        moved == {q \in DOMAIN tree : IsPrefix(old, q)}
        kept  == {q \in DOMAIN tree : ~IsPrefix(new, q)}
        Dest(q) == new \o SubSeq(q, Len(old) + 1, Len(q))
    IN  [q \in kept \cup {Dest(s) : s \in moved} |->
            IF q \in kept THEN tree[q]
            ELSE tree[CHOOSE s \in moved : Dest(s) = q]]

\* keyToChildNode[to] = keyToChildNode[from]; delete(keyToChildNode, from)
RenameChild(tree, node, from, to) ==
    LET old   == Append(node, from)
        new   == Append(node, to)
        moved == {q \in DOMAIN tree : IsPrefix(old, q)}
        kept  == {q \in DOMAIN tree : ~IsPrefix(old, q) /\ ~IsPrefix(new, q)}
        Dest(q) == new \o SubSeq(q, Len(old) + 1, Len(q))
    IN  [q \in kept \cup {Dest(s) : s \in moved} |->
            IF q \in kept THEN tree[q]
            ELSE tree[CHOOSE s \in moved : Dest(s) = q]]

----------------------------------------------------------------------------
(* Strings *)

\* strings.Split(content, " ")
RECURSIVE SplitLoop(_, _, _)
SplitLoop(content, start, k) ==
    IF k > Len(content) THEN <<SubSeq(content, start, Len(content))>>
    ELSE IF SubSeq(content, k, k) = " "
         THEN <<SubSeq(content, start, k - 1)>> \o SplitLoop(content, k + 1, k + 1)
         ELSE SplitLoop(content, start, k + 1)

Split(content) == SplitLoop(content, 1, 1)

\* strings.Replace(content, delimiter, " ", -1) for the one-byte delimiters
RECURSIVE ReplaceLoop(_, _, _)
ReplaceLoop(content, delimiter, k) ==
    IF k > Len(content) THEN ""
    ELSE (IF SubSeq(content, k, k) = delimiter THEN " " ELSE SubSeq(content, k, k))
         \o ReplaceLoop(content, delimiter, k + 1)

RECURSIVE ReplaceAllDelimiters(_, _, _)
ReplaceAllDelimiters(content, delimiters, k) ==
    IF k > Len(delimiters) THEN content
    ELSE ReplaceAllDelimiters(ReplaceLoop(content, delimiters[k], 1), delimiters, k + 1)

\* Drain.getContentAsTokens
GetContentAsTokens(content) ==
    Split(ReplaceAllDelimiters(content, config.ExtraDelimiters, 1))

\* strings.Join(tokens, " ")
RECURSIVE Join(_)
Join(tokens) ==
    IF Len(tokens) = 0 THEN ""
    ELSE IF Len(tokens) = 1 THEN tokens[1]
    ELSE tokens[1] \o " " \o Join(Tail(tokens))

\* a loop that drops a token that is the placeholder or equals its predecessor
RECURSIVE DedupLoopEither(_, _, _, _)
DedupLoopEither(array, param, i, k) ==
    IF k > Len(array) THEN [array |-> array, n |-> i - 1]
    ELSE IF array[k] # param /\ array[k] # array[k - 1]
         THEN DedupLoopEither(IF i # k THEN [array EXCEPT ![i] = array[k]] ELSE array,
                              param, i + 1, k + 1)
         ELSE DedupLoopEither(array, param, i, k + 1)

\* deduplicatePlaceholders: the loop works in the array of its argument; the
\* result is [array |-> the array afterwards, n |-> the length of tokens[:i]]
RECURSIVE DedupLoop(_, _, _, _)
DedupLoop(array, param, i, k) ==
    IF k > Len(array) THEN [array |-> array, n |-> i - 1]
    ELSE IF array[k] # param \/ array[k] # array[k - 1]
         THEN DedupLoop(IF i # k THEN [array EXCEPT ![i] = array[k]] ELSE array,
                        param, i + 1, k + 1)
         ELSE DedupLoop(array, param, i, k + 1)

DeduplicatePlaceholders(tokens, param) ==
    IF Len(tokens) < 2 THEN [array |-> tokens, n |-> Len(tokens)]
    ELSE DedupLoop(tokens, param, 2, 2)

\* the slice deduplicatePlaceholders returns: tokens[:i]
DedupResult(tokens, param) ==
    LET d == DeduplicatePlaceholders(tokens, param)
    IN  SubSeq(d.array, 1, d.n)

\* tokenizePattern: the slice deduplicatePlaceholders returns
TokenizePattern(content, param) ==
    LET d == DeduplicatePlaceholders(Split(content), param)
    IN  SubSeq(d.array, 1, d.n)

----------------------------------------------------------------------------
(* Similarity and merge.  A similarity is the fraction <<num, den>>.        *)

SimGreater(a, b) == a[1] * b[2] > b[1] * a[2]
SimEqual(a, b) == a[1] * b[2] = b[1] * a[2]
SimAtLeast(a, b) == a[1] * b[2] >= b[1] * a[2]

\* a getSeqDistance that never counts the placeholders as matches
GetSeqDistanceNoParams(clusterTokens, tokens, includeParams) ==
    IF Len(clusterTokens) # Len(tokens)
    THEN [panic |-> TRUE, sim |-> <<0, 1>>, paramCount |-> 0]
    ELSE LET n == Len(clusterTokens)
             rejected == \E i \in 1..n :
                 IsMarked(clusterTokens[i]) /\ clusterTokens[i] # tokens[i]
             paramCount == Cardinality({i \in 1..n : clusterTokens[i] = ParamString})
             simTokens == Cardinality({i \in 1..n :
                 clusterTokens[i] # ParamString /\ clusterTokens[i] = tokens[i]})
         IN  IF rejected
             THEN [panic |-> FALSE, sim |-> <<0, 1>>, paramCount |-> -1]
             ELSE [panic |-> FALSE, sim |-> <<simTokens, n>>, paramCount |-> paramCount]

\* Drain.getSeqDistance
GetSeqDistance(clusterTokens, tokens, includeParams) ==
    IF Len(clusterTokens) # Len(tokens)
    THEN [panic |-> TRUE, sim |-> <<0, 1>>, paramCount |-> 0]
    ELSE LET n == Len(clusterTokens)
             rejected == \E i \in 1..n :
                 IsMarked(clusterTokens[i]) /\ clusterTokens[i] # tokens[i]
             paramCount == Cardinality({i \in 1..n : clusterTokens[i] = ParamString})
             simTokens == Cardinality({i \in 1..n :
                 clusterTokens[i] # ParamString /\ clusterTokens[i] = tokens[i]})
         IN  IF rejected
             THEN [panic |-> FALSE, sim |-> <<0, 1>>, paramCount |-> -1]
             ELSE [panic |-> FALSE,
                   sim |-> <<simTokens + (IF includeParams THEN paramCount ELSE 0), n>>,
                   paramCount |-> paramCount]

\* a createTemplate that takes the line's token where the two differ
CreateTemplateOfLine(tokens, matchClusterTokens) ==
    [i \in 1..Len(matchClusterTokens) |->
        IF tokens[i] # matchClusterTokens[i] THEN tokens[i] ELSE matchClusterTokens[i]]

\* Drain.createTemplate (the caller has checked the lengths)
CreateTemplate(tokens, matchClusterTokens) ==
    [i \in 1..Len(matchClusterTokens) |->
        IF tokens[i] # matchClusterTokens[i] THEN ParamString ELSE matchClusterTokens[i]]

\* LogCluster.append: increments Size (the time buckets are not modelled)
ClusterAppend(cluster) == [cluster EXCEPT !.Size = @ + 1]

----------------------------------------------------------------------------
(* One call works on a machine m:                                           *)
(*   tree, cache   the tree and the LRU                                     *)
(*   w, wArray     the token slice of the call and the label of its array   *)
(*                 (FreshArray: a slice built for this call)                *)
(*   panic                                                                  *)

\* Body(x) for x the value of an expression, evaluated once
With(value, Body(_)) == CHOOSE r \in {Body(x) : x \in {value}} : TRUE

FreshArray == 0 - 1

\* array[i] = v, seen by every cluster whose Tokens is that array
SetArrayToken(cache, array, i, v) ==
    [k \in 1..Len(cache) |->
        IF cache[k].Array = array THEN [cache[k] EXCEPT !.Tokens[i] = v] ELSE cache[k]]

\* tokens[i] = v on the slice of the call
WriteTokens(m, i, v) ==
    [m EXCEPT !.w[i] = v, !.cache = SetArrayToken(m.cache, m.wArray, i, v)]

\* cluster.Tokens[i] = v
WriteCluster(m, id, i, v) ==
    LET array == CachePeek(m.cache, id).Array
    IN  IF array = 0
        THEN [m EXCEPT !.cache[CacheIndex(m.cache, id)].Tokens[i] = v]
        ELSE IF array = m.wArray THEN WriteTokens(m, i, v)
        ELSE [m EXCEPT !.cache = SetArrayToken(m.cache, array, i, v)]

\* Drain.fastMatch, the loop over clusterIDs from index k
RECURSIVE FastMatchLoop(_, _, _, _, _)
FastMatchLoop(acc0, clusterIDs, k, tokens, includeParams) ==
    With(acc0, LAMBDA acc :
        IF k > Len(clusterIDs) \/ acc.panic THEN acc
        ELSE IF ~CacheHas(acc.cache, clusterIDs[k])
        THEN FastMatchLoop(acc, clusterIDs, k + 1, tokens, includeParams)
        ELSE With(CachePeek(acc.cache, clusterIDs[k]), LAMBDA cluster :
             With([acc EXCEPT !.cache = CacheGet(acc.cache, clusterIDs[k])], LAMBDA got :
             With(GetSeqDistance(cluster.Tokens, tokens, includeParams), LAMBDA d :
                 FastMatchLoop(
                     IF d.panic THEN [got EXCEPT !.panic = TRUE]
                     ELSE IF d.paramCount < 0 THEN got
                     ELSE IF \/ SimGreater(d.sim, acc.maxSim)
                             \/ /\ SimEqual(d.sim, acc.maxSim)
                                /\ d.paramCount > acc.maxParamCount
                     THEN [got EXCEPT !.maxSim = d.sim, !.maxParamCount = d.paramCount,
                                      !.maxCluster = cluster.id]
                     ELSE got,
                     clusterIDs, k + 1, tokens, includeParams)))))

\* Drain.fastMatch: [m, ret], ret the id of the cluster returned, 0 for nil
FastMatch(m, clusterIDs, simTh, includeParams) ==
    With(FastMatchLoop([cache |-> m.cache, maxSim |-> <<-1, 1>>,
                        maxParamCount |-> -1, maxCluster |-> 0, panic |-> FALSE],
                       clusterIDs, 1, m.w, includeParams), LAMBDA acc :
        [m |-> [m EXCEPT !.cache = acc.cache, !.panic = acc.panic],
         ret |-> IF ~acc.panic /\ SimAtLeast(acc.maxSim, simTh)
                 THEN acc.maxCluster ELSE 0])

\* Drain.treeSearch, the loop over the tokens: [m, node, ok]
RECURSIVE SearchLoop(_, _, _)
SearchLoop(m0, curNode, curNodeDepth) ==
    With(m0, LAMBDA m :
        IF curNodeDepth >= config.maxNodeDepth \/ curNodeDepth = Len(m.w)
        THEN [m |-> m, node |-> curNode, ok |-> TRUE]
        ELSE With(m.w[curNodeDepth], LAMBDA token :
             With(Preprocess(token), LAMBDA processedKey :
                 IF HasChild(m.tree, curNode, token)
                 THEN SearchLoop(m, Append(curNode, token), curNodeDepth + 1)
                 ELSE IF HasChild(m.tree, curNode, processedKey)
                 THEN SearchLoop(WriteTokens(m, curNodeDepth, processedKey),
                                 Append(curNode, processedKey), curNodeDepth + 1)
                 ELSE IF HasChild(m.tree, curNode, ParamString)
                 THEN SearchLoop(WriteTokens(m, curNodeDepth, processedKey),
                                 Append(curNode, ParamString), curNodeDepth + 1)
                 ELSE [m |-> m, node |-> curNode, ok |-> FALSE])))

\* Drain.treeSearch: [m, ret]
TreeSearch(m0, simTh, includeParams) ==
    With(m0, LAMBDA m :
    With(<<Itoa(Len(m.w))>>, LAMBDA first :
        IF first \notin DOMAIN m.tree THEN [m |-> m, ret |-> 0]
        ELSE IF Len(m.w) < 2
        THEN IF Len(m.tree[first]) = 0
             THEN [m |-> [m EXCEPT !.panic = TRUE], ret |-> 0]
             ELSE [m |-> [m EXCEPT !.cache = CacheGet(m.cache, m.tree[first][1])],
                   ret |-> IF CacheHas(m.cache, m.tree[first][1])
                           THEN m.tree[first][1] ELSE 0]
        ELSE With(SearchLoop(m, first, 1), LAMBDA walk :
                 IF ~walk.ok THEN [m |-> walk.m, ret |-> 0]
                 ELSE FastMatch(walk.m, walk.m.tree[walk.node], simTh, includeParams))))

----------------------------------------------------------------------------
(* Insertion.  Go iterates a map in no fixed order, so the operators that    *)
(* range over keyToChildNode yield the set of the outcomes of all orders.    *)

\* addSeqToPrefixTree at the leaf: drop the ids the cache no longer holds
RECURSIVE SweepLoop(_, _, _, _)
SweepLoop(cache, clusterIDs, k, newClusterIDs) ==
    IF k > Len(clusterIDs) THEN [cache |-> cache, ids |-> newClusterIDs]
    ELSE SweepLoop(CacheGet(cache, clusterIDs[k]), clusterIDs, k + 1,
                   IF CacheHas(cache, clusterIDs[k])
                   THEN Append(newClusterIDs, clusterIDs[k]) ELSE newClusterIDs)

\* replaceAllTokens: the orders in which the recursion can visit the cluster
\* ids of the subtree at node (its own list first, then its children's)
RECURSIVE VisitOrders(_, _)
RECURSIVE ChildOrders(_, _)
VisitOrders(tree, node) ==
    {tree[node] \o rest : rest \in ChildOrders(tree, ChildNodes(tree, node))}

ChildOrders(tree, nodes) ==
    IF nodes = {} THEN {<<>>}
    ELSE UNION {{a \o b : a \in VisitOrders(tree, n), b \in ChildOrders(tree, nodes \ {n})}
                : n \in nodes}

\* replaceAllTokens along one visiting order
RECURSIVE ReplaceAllTokens(_, _, _, _, _)
ReplaceAllTokens(m0, order, k, i, replacement) ==
    With(m0, LAMBDA m :
        IF k > Len(order) THEN m
        ELSE With([m EXCEPT !.cache = CacheGet(m.cache, order[k])], LAMBDA got :
                 ReplaceAllTokens(IF CacheHas(m.cache, order[k])
                                  THEN WriteCluster(got, order[k], i, replacement)
                                  ELSE got,
                                  order, k + 1, i, replacement)))

\* a fan-out rule that makes the placeholder child first
FanOutParamFirst(m, curNode, token) ==
    LET n == Cardinality(ChildKeys(m.tree, curNode))
        create(key) == [m |-> [m EXCEPT !.tree = AddChild(m.tree, curNode, key)],
                        node |-> Append(curNode, key), nil |-> FALSE]
        wildcard == [m |-> m, node |-> Append(curNode, ParamString),
                     nil |-> ~HasChild(m.tree, curNode, ParamString)]
    IN  IF HasChild(m.tree, curNode, ParamString)
        THEN IF n < config.MaxChildren THEN create(token) ELSE wildcard
        ELSE create(ParamString)

\* a fan-out rule that adds one literal child to a full node
FanOutOverfull(m, curNode, token) ==
    LET n == Cardinality(ChildKeys(m.tree, curNode))
        create(key) == [m |-> [m EXCEPT !.tree = AddChild(m.tree, curNode, key)],
                        node |-> Append(curNode, key), nil |-> FALSE]
        wildcard == [m |-> m, node |-> Append(curNode, ParamString),
                     nil |-> ~HasChild(m.tree, curNode, ParamString)]
    IN  IF HasChild(m.tree, curNode, ParamString)
        THEN IF n <= config.MaxChildren THEN create(token) ELSE wildcard
        ELSE IF n + 1 < config.MaxChildren THEN create(token)
             ELSE IF n + 1 = config.MaxChildren THEN create(ParamString)
             ELSE wildcard

\* addSeqToPrefixTree, no key of the layer is close to the token: the fan-out
\* rule.  [m, node, nil]; nil says curNode became nil (no placeholder child).
FanOut(m, curNode, token) ==
    LET n == Cardinality(ChildKeys(m.tree, curNode))
        create(key) == [m |-> [m EXCEPT !.tree = AddChild(m.tree, curNode, key)],
                        node |-> Append(curNode, key), nil |-> FALSE]
        wildcard == [m |-> m, node |-> Append(curNode, ParamString),
                     nil |-> ~HasChild(m.tree, curNode, ParamString)]
    IN  IF HasChild(m.tree, curNode, ParamString)
        THEN IF n < config.MaxChildren THEN create(token) ELSE wildcard
        ELSE IF n + 1 < config.MaxChildren THEN create(token)
             ELSE IF n + 1 = config.MaxChildren THEN create(ParamString)
             ELSE wildcard

\* addSeqToPrefixTree, the loop over cluster.Tokens: the set of machines it
\* can end in
RECURSIVE AddSeqLoop(_, _, _, _)
RECURSIVE AddSeqSpread(_, _, _, _, _)
RECURSIVE AddSeqGroup(_, _, _, _, _, _)

\* ... matchingKey == "": the fan-out rule, then the next token
AddSeqSpread(m, id, curNode, currentDepth, token) ==
    With(FanOut(m, curNode, token), LAMBDA f :
        IF f.nil THEN {[f.m EXCEPT !.panic = TRUE]}
        ELSE AddSeqLoop(f.m, id, f.node, currentDepth + 1))

\* ... matchingKey is a key of the layer: rename its edge unless it is the
\* processed token, then the next token
AddSeqGroup(m, id, curNode, currentDepth, matchingKey, processedToken) ==
    IF matchingKey = processedToken
    THEN AddSeqLoop(m, id, Append(curNode, processedToken), currentDepth + 1)
    ELSE UNION {
        With(ReplaceAllTokens(m, order, 1, currentDepth, processedToken), LAMBDA r :
            AddSeqLoop([r EXCEPT !.tree = RenameChild(r.tree, curNode, matchingKey,
                                                      processedToken)],
                       id, Append(curNode, processedToken), currentDepth + 1))
        : order \in VisitOrders(m.tree, Append(curNode, matchingKey))}

AddSeqLoop(m0, id, curNode, currentDepth) ==
    With(m0, LAMBDA m :
    With(CachePeek(m.cache, id).Tokens, LAMBDA tokens :
        IF currentDepth >= config.maxNodeDepth \/ currentDepth >= Len(tokens)
        THEN With(SweepLoop(m.cache, m.tree[curNode], 1, <<>>), LAMBDA swept :
                 {[m EXCEPT !.cache = swept.cache,
                            !.tree[curNode] = Append(swept.ids, id)]})
        ELSE IF HasChild(m.tree, curNode, tokens[currentDepth])
        THEN AddSeqLoop(m, id, Append(curNode, tokens[currentDepth]), currentDepth + 1)
        ELSE With(Preprocess(tokens[currentDepth]), LAMBDA processedToken :
             With({key \in ChildKeys(m.tree, curNode) : Preprocess(key) = processedToken},
                  LAMBDA close :
                 IF close = {}
                 THEN AddSeqSpread(m, id, curNode, currentDepth, tokens[currentDepth])
                 ELSE With(WriteCluster(m, id, currentDepth, processedToken), LAMBDA marked :
                          UNION {IF matchingKey = ""
                                 THEN AddSeqSpread(marked, id, curNode, currentDepth,
                                                   tokens[currentDepth])
                                 ELSE AddSeqGroup(marked, id, curNode, currentDepth,
                                                  matchingKey, processedToken)
                                 : matchingKey \in close})))))

\* an addSeqToPrefixTree that files the cluster under the next token count
AddSeqToNextCount(m0, id) ==
    With(m0, LAMBDA m :
    With(<<Itoa(Len(CachePeek(m.cache, id).Tokens) + 1)>>, LAMBDA first :
    With(IF first \in DOMAIN m.tree THEN m
         ELSE [m EXCEPT !.tree = AddChild(m.tree, <<>>, first[1])], LAMBDA withFirst :
        IF Len(CachePeek(m.cache, id).Tokens) = 0
        THEN {[withFirst EXCEPT !.tree[first] = Append(@, id)]}
        ELSE AddSeqLoop(withFirst, id, first, 1))))

\* Drain.addSeqToPrefixTree
AddSeqToPrefixTree(m0, id) ==
    With(m0, LAMBDA m :
    With(<<Itoa(Len(CachePeek(m.cache, id).Tokens))>>, LAMBDA first :
    With(IF first \in DOMAIN m.tree THEN m
         ELSE [m EXCEPT !.tree = AddChild(m.tree, <<>>, first[1])], LAMBDA withFirst :
        IF Len(CachePeek(m.cache, id).Tokens) = 0
        THEN {[withFirst EXCEPT !.tree[first] = Append(@, id)]}
        ELSE AddSeqLoop(withFirst, id, first, 1))))

----------------------------------------------------------------------------
(* Training *)

\* train: for i, token := range tokens { if len(token) > 50 { ... } }
RECURSIVE ClipLoop(_, _)
ClipLoop(m0, i) ==
    With(m0, LAMBDA m :
        IF i > Len(m.w) THEN m
        ELSE ClipLoop(IF Len(m.w[i]) > MaxTokenLen
                      THEN WriteTokens(m, i, SubSeq(m.w[i], 1, MaxTokenLen) \o ParamString)
                      ELSE m,
                      i + 1))

\* cache entry of cluster id replaced by value, recency untouched
PutCluster(cache, value) ==
    [k \in 1..Len(cache) |-> IF cache[k].id = value.id THEN value ELSE cache[k]]

\* the cluster train makes when the search found none
NewCluster(fresh, clusterID, m, append) ==
    With([fresh EXCEPT !.id = clusterID, !.Tokens = m.w, !.Array = m.wArray],
         LAMBDA literal : IF append THEN ClusterAppend(literal) ELSE literal)

\* the cluster train makes of the one the search found
Generalised(old, tokens, append) ==
    With([old EXCEPT !.Tokens = CreateTemplate(tokens, old.Tokens), !.Array = 0],
         LAMBDA c : IF append THEN ClusterAppend(c) ELSE c)

\* The path train and TrainPattern share, from treeSearch on: the set of
\* [m, ret, created].  fresh is the cluster literal of the caller with
\* everything but id and Tokens; append says whether append() is called.
TrainSearched(m, fresh, append) ==
    With(TreeSearch(m, config.SimTh, FALSE), LAMBDA s :
        IF s.m.panic THEN {[m |-> s.m, ret |-> 0, created |-> FALSE]}
        ELSE IF s.ret = 0
        THEN {[m |-> a, ret |-> clustersCounter + 1, created |-> TRUE]
              : a \in AddSeqToPrefixTree(
                    [s.m EXCEPT !.cache =
                        CacheSet(s.m.cache,
                                 NewCluster(fresh, clustersCounter + 1, s.m, append),
                                 CacheSize(config.MaxClusters))],
                    clustersCounter + 1)}
        ELSE IF Len(s.m.w) # Len(CachePeek(s.m.cache, s.ret).Tokens)
        THEN {[m |-> [s.m EXCEPT !.panic = TRUE], ret |-> 0, created |-> FALSE]}
        ELSE {[m |-> [s.m EXCEPT !.cache =
                         CacheGet(PutCluster(s.m.cache,
                                             Generalised(CachePeek(s.m.cache, s.ret),
                                                         s.m.w, append)),
                                  s.ret)],
               ret |-> s.ret, created |-> FALSE]})

\* Drain.train
TrainResults(m) ==
    TrainSearched(ClipLoop(m, 1), [id |-> 0, Tokens |-> <<>>, Array |-> 0, Size |-> 1], TRUE)

\* Drain.TrainPattern (merge folds the samples, which are not modelled)
TrainPatternResults(m) ==
    TrainSearched(m, [id |-> 0, Tokens |-> <<>>, Array |-> 0, Size |-> 0], FALSE)

----------------------------------------------------------------------------
(* Inputs *)

\* a token of 51 bytes
LongToken == "aaaaaaaaaabbbbbbbbbbccccccccccddddddddddeeeeeeeeeef"

\* the token lists given to TrainTokens and MatchTokens
Lines ==
    { <<>>, <<"a">>,
      <<"v1", "a">>, <<"v2", "b">>,
      <<"a", "b", "b">>, <<"#k", "a", "b">>, <<LongToken, "a">> }

\* the token lists the tokenizer makes of the lines given to Train
TokenizerLines == { <<"#k">>, <<"v2", "v1", "a">> }

\* the lines given to Match
Contents == { "", "b", "v1,v2 a" }

\* the patterns given to TrainPattern
Patterns == { "<_> <_> b <_>", "v2 <_>" }

\* DefaultConfig, and configurations with a small depth, fan-out and store
Configs ==
    { [LogClusterDepth |-> 18, SimTh |-> <<1, 2>>, MaxChildren |-> 8,
       MaxClusters |-> 300, ExtraDelimiters |-> <<>>],
      [LogClusterDepth |-> 3, SimTh |-> <<1, 2>>, MaxChildren |-> 2,
       MaxClusters |-> 2, ExtraDelimiters |-> <<",">>],
      [LogClusterDepth |-> 4, SimTh |-> <<1, 2>>, MaxChildren |-> 1,
       MaxClusters |-> 0, ExtraDelimiters |-> <<>>] }

----------------------------------------------------------------------------
(* The engine.  The caller of TrainTokens may pass the same slice to the    *)
(* call it makes next (TrainTokensAgain, MatchTokensAgain); it builds a new *)
(* slice for every other call.                                              *)

\* New: config.maxNodeDepth = config.LogClusterDepth - 2, an empty root and
\* an empty cache
New(c) ==
    [LogClusterDepth |-> c.LogClusterDepth, maxNodeDepth |-> c.LogClusterDepth - 2,
     SimTh |-> c.SimTh, MaxChildren |-> c.MaxChildren, MaxClusters |-> c.MaxClusters,
     ExtraDelimiters |-> c.ExtraDelimiters]

\* what a call that is neither a training nor a match leaves in lastCall
Called(op) ==
    [op |-> op, same |-> FALSE, arg |-> <<>>, ret |-> 0, created |-> FALSE]

Init ==
    /\ config \in {New(c) : c \in {c \in Configs : c.LogClusterDepth >= 3}}
    /\ rootNode = (<<>> :> <<>>)
    /\ idToCluster = <<>>
    /\ clustersCounter = 0
    /\ callerTokens = <<>>
    /\ callerArray = 0
    /\ panicked = FALSE
    /\ lastCall = Called("New")
    /\ trainOrder = <<>>
    /\ deletedIds = {}
    /\ trainCalls = 0

\* the machine a call starts in
Machine(tokens, array) ==
    [tree |-> rootNode, cache |-> idToCluster, w |-> tokens, wArray |-> array,
     panic |-> FALSE]

\* the clusters of the cache whose Tokens is the array labelled array
Holders(cache, array) == {cache[k].id : k \in {j \in 1..Len(cache) : cache[j].Array = array}}

Min(S) == CHOOSE x \in S : \A y \in S : x <= y

\* the label of an array at the end of a call: 0 when at most one holds it,
\* else the smallest id of the clusters that hold it
Label(cache, array, callerHolds) ==
    LET n == Cardinality(Holders(cache, array)) + (IF callerHolds THEN 1 ELSE 0)
    IN  IF array = 0 \/ n < 2 THEN 0 ELSE Min(Holders(cache, array))

\* the cache with its arrays labelled anew; the caller holds callerHeld or none
Relabel(cache, callerHeld) ==
    [k \in 1..Len(cache) |->
        [cache[k] EXCEPT !.Array = Label(cache, @, @ = callerHeld)]]

SeqWithout(s, x) == SelectSeq(s, LAMBDA e : e # x)

\* the order of last training after a training call that returned ret
Trained(order, cache, ret) ==
    LET rest == SelectSeq(SeqWithout(order, ret), LAMBDA e : CacheHas(cache, e))
    IN  IF ret # 0 /\ CacheHas(cache, ret) THEN Append(rest, ret) ELSE rest

\* what a training or matching call leaves; keeps: the caller holds the slice
\* of the call afterwards (TrainTokens)
Commit(op, same, arg, r, keeps) ==
    /\ rootNode' = r.m.tree
    /\ idToCluster' = Relabel(r.m.cache, IF keeps THEN r.m.wArray ELSE 0)
    /\ clustersCounter' = IF r.created THEN clustersCounter + 1 ELSE clustersCounter
    /\ callerTokens' = IF keeps THEN r.m.w ELSE <<>>
    /\ callerArray' = IF keeps THEN Label(r.m.cache, r.m.wArray, TRUE) ELSE 0
    /\ panicked' = r.m.panic
    /\ lastCall' = [op |-> op, same |-> same, arg |-> arg, ret |-> r.ret,
                    created |-> r.created]
    /\ UNCHANGED <<config, deletedIds>>

\* what a training call leaves
CommitTrain(op, same, arg, r, keeps) ==
    /\ Commit(op, same, arg, r, keeps)
    /\ trainOrder' = Trained(trainOrder, r.m.cache, r.ret)
    /\ trainCalls' = trainCalls + 1

\* Drain.Train: tokenizer.Marshal makes the slice
Train(tokens) ==
    /\ ~panicked /\ trainCalls < MaxTrainCalls
    /\ \E r \in TrainResults(Machine(tokens, FreshArray)) :
          CommitTrain("Train", FALSE, tokens, r, FALSE)

\* Drain.TrainTokens with a slice the caller built for this call
TrainTokens(tokens) ==
    /\ ~panicked /\ trainCalls < MaxTrainCalls
    /\ \E r \in TrainResults(Machine(tokens, FreshArray)) :
          CommitTrain("TrainTokens", FALSE, tokens, r, TRUE)

\* Drain.TrainTokens with the slice of the TrainTokens call just made
TrainTokensAgain ==
    /\ ~panicked /\ trainCalls < MaxTrainCalls
    /\ lastCall.op = "TrainTokens"
    /\ \E r \in TrainResults(Machine(callerTokens,
                                     IF callerArray = 0 THEN FreshArray ELSE callerArray)) :
          CommitTrain("TrainTokens", TRUE, callerTokens, r, TRUE)

\* Drain.TrainPattern
TrainPattern(content) ==
    /\ ~panicked /\ trainCalls < MaxTrainCalls
    /\ \E r \in TrainPatternResults(Machine(TokenizePattern(content, ParamString),
                                            FreshArray)) :
          CommitTrain("TrainPattern", FALSE, TokenizePattern(content, ParamString), r, FALSE)

\* what Match and MatchTokens leave
CommitMatch(op, same, s) ==
    /\ Commit(op, same, <<>>, [m |-> s.m, ret |-> s.ret, created |-> FALSE], same)
    /\ UNCHANGED <<trainOrder, trainCalls>>

\* Drain.Match
MatchResult(content) ==
    TreeSearch(Machine(GetContentAsTokens(content), FreshArray), <<1, 1>>, TRUE)

Match(content) ==
    /\ ~panicked
    /\ \E s \in {MatchResult(content)} : CommitMatch("Match", FALSE, s)

\* Drain.MatchTokens
MatchTokensResult(contentTokens, array) ==
    TreeSearch(Machine(contentTokens, array), <<1, 1>>, TRUE)

\* Drain.MatchTokens with a slice the caller built for this call
MatchTokens(contentTokens) ==
    /\ ~panicked
    /\ \E s \in {MatchTokensResult(contentTokens, FreshArray)} :
          CommitMatch("MatchTokens", FALSE, s)

\* Drain.MatchTokens with the slice of the TrainTokens call just made
MatchTokensAgain ==
    /\ ~panicked
    /\ lastCall.op = "TrainTokens"
    /\ \E s \in {MatchTokensResult(callerTokens,
                                    IF callerArray = 0 THEN FreshArray ELSE callerArray)} :
          CommitMatch("MatchTokens", TRUE, s)

\* Drain.Delete of a cluster a training call returned
Delete(id) ==
    /\ ~panicked
    /\ idToCluster' = Relabel(CacheRemove(idToCluster, id), 0)
    /\ trainOrder' = SeqWithout(trainOrder, id)
    /\ deletedIds' = IF CacheHas(idToCluster, id) THEN deletedIds \cup {id} ELSE deletedIds
    /\ callerTokens' = <<>>
    /\ callerArray' = 0
    /\ lastCall' = Called("Delete")
    /\ UNCHANGED <<config, rootNode, clustersCounter, panicked, trainCalls>>

\* the cache after deduplicatePlaceholders(c.Tokens, ...) worked in c's array
Deduplicated(cache, id) ==
    LET c == CachePeek(cache, id)
        d == DeduplicatePlaceholders(c.Tokens, ParamString)
    IN  [k \in 1..Len(cache) |->
            IF cache[k].id = id \/ (c.Array # 0 /\ cache[k].Array = c.Array)
            THEN [cache[k] EXCEPT !.Tokens = d.array] ELSE cache[k]]

\* Drain.PatternString of a cluster of the store: the string it returns
PatternStringResult(c) ==
    LET d == DeduplicatePlaceholders(c.Tokens, ParamString)
        s == Join(SubSeq(d.array, 1, d.n))
    IN  IF s = ParamString THEN "" ELSE s

PatternString(id) ==
    /\ ~panicked
    /\ CacheHas(idToCluster, id)
    /\ idToCluster' = Relabel(Deduplicated(idToCluster, id), 0)
    /\ callerTokens' = <<>>
    /\ callerArray' = 0
    /\ lastCall' = Called("PatternString")
    /\ UNCHANGED <<config, rootNode, clustersCounter, panicked, trainOrder,
                   deletedIds, trainCalls>>

Next ==
    \/ \E tokens \in TokenizerLines : Train(tokens)
    \/ \E tokens \in Lines : TrainTokens(tokens)
    \/ TrainTokensAgain
    \/ \E content \in Patterns : TrainPattern(content)
    \/ \E content \in Contents : Match(content)
    \/ \E tokens \in Lines : MatchTokens(tokens)
    \/ MatchTokensAgain
    \/ \E id \in 1..clustersCounter : Delete(id)
    \/ \E id \in 1..clustersCounter : PatternString(id)

Spec == Init /\ [][Next]_vars

----------------------------------------------------------------------------
(* The scenario of the default configuration: the lines "a b c d",          *)
(* "a b x d", "a b y d" are trained in this order, split on spaces, into an *)
(* empty engine; matches, deletions and renderings come in between and      *)
(* after.                                                                   *)

DefaultConfig ==
    [LogClusterDepth |-> 18, SimTh |-> <<1, 2>>, MaxChildren |-> 8,
     MaxClusters |-> 300, ExtraDelimiters |-> <<>>]

ScenarioLines == << "a b c d", "a b x d", "a b y d" >>

\* the lines matched: the lines trained and one that was not
ScenarioContents == {ScenarioLines[k] : k \in 1..Len(ScenarioLines)} \cup {"a b z d"}

ScenarioInit ==
    /\ config = New(DefaultConfig)
    /\ rootNode = (<<>> :> <<>>)
    /\ idToCluster = <<>>
    /\ clustersCounter = 0
    /\ callerTokens = <<>>
    /\ callerArray = 0
    /\ panicked = FALSE
    /\ lastCall = Called("New")
    /\ trainOrder = <<>>
    /\ deletedIds = {}
    /\ trainCalls = 0

ScenarioNext ==
    \/ /\ trainCalls < Len(ScenarioLines)
       /\ Train(Split(ScenarioLines[trainCalls + 1]))
    \/ \E content \in ScenarioContents : Match(content)
    \/ \E content \in ScenarioContents : MatchTokens(Split(content))
    \/ \E id \in 1..clustersCounter : Delete(id)
    \/ \E id \in 1..clustersCounter : PatternString(id)

ScenarioSpec == ScenarioInit /\ [][ScenarioNext]_vars

----------------------------------------------------------------------------
(* deduplicatePlaceholders as a function of its own: it is called on any    *)
(* token list of the placeholder and two literals, and again on what it     *)
(* returned.                                                                *)

MaxDedupLen == 4

DedupTokens == {ParamString, "a", "b"}

DedupInputs == UNION {[1..n -> DedupTokens] : n \in 0..MaxDedupLen}

DedupInit ==
    /\ config = New(DefaultConfig)
    /\ rootNode = (<<>> :> <<>>)
    /\ idToCluster = <<>>
    /\ clustersCounter = 0
    /\ callerTokens \in DedupInputs
    /\ callerArray = 0
    /\ panicked = FALSE
    /\ lastCall = Called("New")
    /\ trainOrder = <<>>
    /\ deletedIds = {}
    /\ trainCalls = 0

\* deduplicatePlaceholders(callerTokens, ParamString); the caller keeps the
\* slice returned
DedupCall ==
    /\ callerTokens' = DedupResult(callerTokens, ParamString)
    /\ lastCall' = [Called("deduplicatePlaceholders") EXCEPT !.arg = callerTokens]
    /\ UNCHANGED <<config, rootNode, idToCluster, clustersCounter, callerArray, panicked,
                   trainOrder, deletedIds, trainCalls>>

DedupSpec == DedupInit /\ [][DedupCall]_vars

----------------------------------------------------------------------------
(* The layers of the tree under a small fan-out: three-token lines that     *)
(* differ in their first two tokens are trained into an engine with two     *)
(* layers of edges and MaxChildren 1, 2 or 3.                               *)

LayerConfigs ==
    {[LogClusterDepth |-> 5, SimTh |-> <<1, 2>>, MaxChildren |-> n,
      MaxClusters |-> 0, ExtraDelimiters |-> <<>>] : n \in 1..3}

LayerLines ==
    { <<"a", "x", "q">>, <<"a", "y", "q">>, <<"a", "z", "q">>,
      <<"b", "x", "q">>, <<"c", "x", "q">>,
      <<"v1", "x", "q">>, <<"v2", "y", "q">>, <<ParamString, "x", "q">> }

LayerInit ==
    /\ config \in {New(c) : c \in LayerConfigs}
    /\ rootNode = (<<>> :> <<>>)
    /\ idToCluster = <<>>
    /\ clustersCounter = 0
    /\ callerTokens = <<>>
    /\ callerArray = 0
    /\ panicked = FALSE
    /\ lastCall = Called("New")
    /\ trainOrder = <<>>
    /\ deletedIds = {}
    /\ trainCalls = 0

LayerNext ==
    \/ \E tokens \in LayerLines : TrainTokens(tokens)
    \/ \E tokens \in LayerLines : MatchTokens(tokens)

LayerSpec == LayerInit /\ [][LayerNext]_vars

----------------------------------------------------------------------------
(* Rendering: four-token lines are trained into an engine whose leaves are  *)
(* the length buckets, so that a template can hold two placeholders side by *)
(* side; the patterns are rendered and the lines matched.                   *)

RenderConfig ==
    [LogClusterDepth |-> 3, SimTh |-> <<1, 2>>, MaxChildren |-> 8,
     MaxClusters |-> 300, ExtraDelimiters |-> <<>>]

RenderLines == {"a b c d", "a x y d", "a q d d", "b b c d"}

RenderInit ==
    /\ config = New(RenderConfig)
    /\ rootNode = (<<>> :> <<>>)
    /\ idToCluster = <<>>
    /\ clustersCounter = 0
    /\ callerTokens = <<>>
    /\ callerArray = 0
    /\ panicked = FALSE
    /\ lastCall = Called("New")
    /\ trainOrder = <<>>
    /\ deletedIds = {}
    /\ trainCalls = 0

RenderNext ==
    \/ \E content \in RenderLines : Train(Split(content))
    \/ \E content \in RenderLines : Match(content)
    \/ \E id \in 1..clustersCounter : PatternString(id)

RenderSpec == RenderInit /\ [][RenderNext]_vars

----------------------------------------------------------------------------
(* Properties *)

TrainOps == {"Train", "TrainTokens", "TrainPattern"}
MatchOps == {"Match", "MatchTokens"}

\* the cluster of the store with this id
Cluster(cache, id) == CachePeek(cache, id)

\* the store as the eviction sees it: the clusters, oldest first, and their
\* sizes
Store(cache) ==
    [k \in 1..Len(cache) |-> [id |-> cache[k].id, Size |-> cache[k].Size]]

\* every position of the template is the placeholder or the query's token
ExactMatch(template, query) ==
    /\ Len(template) = Len(query)
    /\ \A i \in 1..Len(template) : template[i] = ParamString \/ template[i] = query[i]

ParamCount(template) == Cardinality({i \in 1..Len(template) : template[i] = ParamString})

\* C1 as claimed: MatchTokens(tokens) right after TrainTokens(tokens, _, _), on
\* the same slice, returns the cluster the training call returned.
C1_MatchReturnsTrained ==
    [][(lastCall.op = "TrainTokens" /\ lastCall'.op = "MatchTokens" /\ lastCall'.same
        /\ ~panicked')
       => lastCall'.ret = lastCall.ret]_vars

\* C1 amended: MatchTokens(tokens) right after TrainTokens(tokens, _, _), on the
\* same slice, returns: for two or more tokens a live cluster whose template
\* matches the tokens exactly (every position the placeholder or the token) and
\* holds at least as many placeholders as the trained cluster's; for one token
\* the trained cluster; for no token the trained cluster or none.
C1_MatchAfterTrain ==
    [][(lastCall.op = "TrainTokens" /\ lastCall'.op = "MatchTokens" /\ lastCall'.same
        /\ ~panicked')
       => LET n == Len(callerTokens')
              c == lastCall.ret
              r == lastCall'.ret
          IN  /\ n = 0 => r \in {c, 0}
              /\ n = 1 => r = c
              /\ n >= 2 =>
                   /\ r # 0
                   /\ CacheHas(idToCluster', r) /\ CacheHas(idToCluster', c)
                   /\ ExactMatch(Cluster(idToCluster', r).Tokens, callerTokens')
                   /\ ParamCount(Cluster(idToCluster', r).Tokens)
                        >= ParamCount(Cluster(idToCluster', c).Tokens)]_vars

\* C1 witness: a MatchTokens on the slice of the TrainTokens before it returned
\* a cluster of two or more tokens that holds a placeholder
C1_Witness ==
    /\ lastCall.op = "MatchTokens" /\ lastCall.same /\ lastCall.ret # 0
    /\ Len(callerTokens) >= 2
    /\ ParamCount(Cluster(idToCluster, lastCall.ret).Tokens) > 0

\* C2 as claimed: a cluster's Size is 1 after the Train/TrainTokens call that
\* creates it and grows by exactly 1 with each later such call that returns it.
C2_SizeCountsTrainings ==
    [][(lastCall'.op \in {"Train", "TrainTokens"} /\ ~panicked')
       => IF lastCall'.created
          THEN Cluster(idToCluster', lastCall'.ret).Size = 1
          ELSE Cluster(idToCluster', lastCall'.ret).Size
                 = Cluster(idToCluster, lastCall'.ret).Size + 1]_vars

\* C3 as claimed: two consecutive TrainTokens calls with the same list return
\* the same cluster id and the second creates no cluster.
C3_TrainTwiceSameId ==
    [][(lastCall.op = "TrainTokens" /\ lastCall'.op = "TrainTokens" /\ ~panicked'
        /\ (lastCall'.same \/ lastCall'.arg = lastCall.arg))
       => (lastCall'.ret = lastCall.ret /\ ~lastCall'.created)]_vars

\* C4 as claimed: Match and MatchTokens leave the store as it is: the live
\* clusters, their sizes, and the LRU order that decides the next eviction.
C4_MatchKeepsStore ==
    [][lastCall'.op \in MatchOps => Store(idToCluster') = Store(idToCluster)]_vars

\* C5 as claimed: in every state, MatchTokens(tokens) leaves the tree as it is
\* and the caller's tokens as they were, for every token list.
C5_MatchKeepsTokens ==
    \A tokens \in Lines :
        \A s \in {MatchTokensResult(tokens, FreshArray)} :
            s.m.tree = rootNode /\ s.m.w = tokens

\* C6: with MaxClusters = N > 0 the store holds at most N clusters, and exactly
\* N once N clusters were created and none deleted; with MaxClusters = 0 every
\* cluster created and not deleted is in the store (none is evicted).
C6_StoreBounded ==
    /\ config.MaxClusters > 0 => Len(idToCluster) <= config.MaxClusters
    /\ (config.MaxClusters > 0 /\ clustersCounter >= config.MaxClusters /\ deletedIds = {})
         => Len(idToCluster) = config.MaxClusters
    /\ config.MaxClusters = 0 => LiveIds(idToCluster) = (1..clustersCounter) \ deletedIds

\* C6 witness: more clusters were created than the store holds, none deleted,
\* and the store is full
C6_Witness ==
    /\ config.MaxClusters > 0 /\ clustersCounter > config.MaxClusters /\ deletedIds = {}
    /\ Len(idToCluster) = config.MaxClusters

\* C7 as claimed: the cluster a training call evicts is the live cluster whose
\* last training call is the oldest.
C7_EvictsLeastRecentlyTrained ==
    [][lastCall'.op \in TrainOps
       => \A e \in LiveIds(idToCluster) \ LiveIds(idToCluster') : e = Head(trainOrder)]_vars

\* C8 as claimed: in every state, a cluster that Match or MatchTokens returns
\* has a template of which every position is the placeholder or the query's
\* token (as the search normalised it), for queries of every token count.
C8_MatchIsExact ==
    /\ \A tokens \in Lines :
          \A s \in {MatchTokensResult(tokens, FreshArray)} :
              s.ret # 0 => ExactMatch(Cluster(s.m.cache, s.ret).Tokens, s.m.w)
    /\ \A content \in Contents :
          \A s \in {MatchResult(content)} :
              s.ret # 0 => ExactMatch(Cluster(s.m.cache, s.ret).Tokens, s.m.w)

\* the similarity of the tokens to a template at least the threshold (two empty
\* sequences count as similar)
Similar(template, tokens) ==
    \/ Len(template) = 0 /\ Len(tokens) = 0
    \/ /\ Len(template) = Len(tokens)
       /\ SimAtLeast(GetSeqDistance(template, tokens, FALSE).sim, config.SimTh)

\* C9 as claimed: a TrainTokens call attaches its line to an existing cluster
\* only if the similarity of the line (as clipped and normalised) to the
\* cluster's template, placeholders not counted, is at least SimTh.
C9_AttachNeedsSimilarity ==
    [][(lastCall'.op = "TrainTokens" /\ ~lastCall'.same /\ ~panicked'
        /\ lastCall'.ret # 0 /\ ~lastCall'.created)
       => Similar(Cluster(idToCluster, lastCall'.ret).Tokens, callerTokens')]_vars

\* the lines of the scenario are trained and every cluster is still there
ScenarioTrained == trainCalls = Len(ScenarioLines) /\ deletedIds = {} /\ ~panicked

\* C10 as claimed: after the scenario's three lines the store holds one cluster,
\* with template a b <_> d and size 3, and Match("a b c d") returns it.
C10_OneCluster ==
    ScenarioTrained =>
        /\ Len(idToCluster) = 1
        /\ idToCluster[1].Tokens = <<"a", "b", ParamString, "d">>
        /\ idToCluster[1].Size = 3
        /\ MatchResult("a b c d").ret = idToCluster[1].id

\* C10 amended: after the scenario's three lines the store holds three
\* clusters, 1, 2 and 3, whose templates are the three lines, each of the size
\* a cluster has after the call that creates it, and Match("a b c d") returns
\* cluster 1.
C10_ThreeClusters ==
    ScenarioTrained =>
        /\ LiveIds(idToCluster) = {1, 2, 3}
        /\ \A k \in 1..3 :
              /\ Cluster(idToCluster, k).Tokens = Split(ScenarioLines[k])
              /\ Cluster(idToCluster, k).Size = ClusterAppend([Size |-> 1]).Size
        /\ MatchResult("a b c d").ret = 1

\* C10 witness: Match("a b c d") was called after the three lines and returned
\* cluster 1
C10_Witness ==
    ScenarioTrained /\ lastCall.op = "Match" /\ lastCall.ret = 1

\* the template new is the template old, or a generalisation or a
\* normalisation of it
Generalises(new, old) ==
    /\ Len(new) = Len(old)
    /\ \A i \in 1..Len(old) :
          \/ new[i] = old[i]
          \/ old[i] # ParamString /\ new[i] \in {ParamString, Preprocess(old[i])}

\* C11: a Train, TrainTokens, TrainPattern, Match, MatchTokens or Delete call
\* leaves every cluster its token count, leaves every placeholder of a template
\* a placeholder, and changes a literal of a template only to the placeholder
\* or to the normalised form of that literal.
C11_MonotoneGeneralisation ==
    [][lastCall'.op \in TrainOps \cup MatchOps \cup {"Delete"}
       => \A id \in LiveIds(idToCluster) \cap LiveIds(idToCluster') :
             Generalises(Cluster(idToCluster', id).Tokens,
                         Cluster(idToCluster, id).Tokens)]_vars

\* C11 witness: the training call just made attached a line without
\* placeholders to a cluster, whose template holds a placeholder and, by a
\* rename, a normalised token
C11_Witness ==
    /\ lastCall.op \in {"Train", "TrainTokens"} /\ ~lastCall.created /\ lastCall.ret # 0
    /\ ParamCount(lastCall.arg) = 0
    /\ ParamCount(Cluster(idToCluster, lastCall.ret).Tokens) > 0
    /\ \E i \in 1..Len(lastCall.arg) :
          /\ Cluster(idToCluster, lastCall.ret).Tokens[i] = Preprocess(lastCall.arg[i])
          /\ lastCall.arg[i] # Preprocess(lastCall.arg[i])

\* xs with every maximal run of adjacent placeholders made one placeholder
RECURSIVE Collapse(_)
Collapse(xs) ==
    IF Len(xs) < 2 THEN xs
    ELSE IF xs[1] = ParamString /\ xs[2] = ParamString THEN Collapse(Tail(xs))
    ELSE <<xs[1]>> \o Collapse(Tail(xs))

\* C12: deduplicatePlaceholders returns its input with every maximal run of
\* adjacent placeholders collapsed to one placeholder and every other token
\* kept in its order; the result holds no two adjacent placeholders and
\* deduplicatePlaceholders returns it unchanged.
C12_DedupCollapses ==
    [][lastCall'.op = "deduplicatePlaceholders"
       => /\ callerTokens' = Collapse(callerTokens)
          /\ \A k \in 2..Len(callerTokens') :
                ~(callerTokens'[k] = ParamString /\ callerTokens'[k - 1] = ParamString)
          /\ DedupResult(callerTokens', ParamString) = callerTokens']_vars

\* C12 witness: a call collapsed a run of three placeholders, or two runs, of a
\* list that holds a literal
C12_Witness ==
    /\ lastCall.op = "deduplicatePlaceholders"
    /\ Len(lastCall.arg) >= Len(callerTokens) + 2
    /\ \E k \in 1..Len(callerTokens) : callerTokens[k] # ParamString

\* the tokens a layer of the tree can be given
LayerTokens == {line[i] : line \in LayerLines, i \in 1..3}

\* C13: with MaxChildren >= 1, every node at or below a length bucket has at
\* most MaxChildren edges, a node with exactly MaxChildren edges has the
\* placeholder edge among them, and the fan-out rule never descends into a
\* placeholder edge that does not exist.
C13_BoundedFanOut ==
    \A node \in DOMAIN rootNode :
        Len(node) >= 1 =>
            /\ Cardinality(ChildKeys(rootNode, node)) <= config.MaxChildren
            /\ Cardinality(ChildKeys(rootNode, node)) = config.MaxChildren
                 => ParamString \in ChildKeys(rootNode, node)
            /\ \A token \in LayerTokens \ ChildKeys(rootNode, node) :
                  ~FanOut(Machine(<<>>, FreshArray), node, token).nil

\* C13 witness: a node is full with two or more edges, and a live cluster whose
\* token at that layer is a literal is listed under its placeholder edge
C13_Witness ==
    \E p \in DOMAIN rootNode : \E j \in 2..Len(p) :
        /\ p[j] = ParamString
        /\ config.MaxChildren >= 2
        /\ Cardinality(ChildKeys(rootNode, SubSeq(p, 1, j - 1))) = config.MaxChildren
        /\ \E k \in 1..Len(rootNode[p]) :
              /\ CacheHas(idToCluster, rootNode[p][k])
              /\ Cluster(idToCluster, rootNode[p][k]).Tokens[j - 1] # ParamString

\* the places of the tree that list the cluster id
Places(tree, id) ==
    UNION {{<<node, k>> : k \in {j \in 1..Len(tree[node]) : tree[node][j] = id}}
           : node \in DOMAIN tree}

\* C14: every cluster of the store is listed by exactly one node of the tree,
\* and exactly once there.
C14_OnePlacePerCluster ==
    \A id \in LiveIds(idToCluster) : Cardinality(Places(rootNode, id)) = 1

\* C14 witness: an edge was renamed to the normalised form of its key, and the
\* node under it lists two clusters of the store
C14_Witness ==
    \E p \in DOMAIN rootNode :
        /\ Len(p) >= 2 /\ p[2] = Preprocess("v1")
        /\ Cardinality({id \in LiveIds(idToCluster) :
                           \E k \in 1..Len(rootNode[p]) : rootNode[p][k] = id}) >= 2

\* C15: every cluster of the store that a node under the length bucket N lists
\* has N template tokens, and no call has panicked (getSeqDistance and
\* createTemplate were always given sequences of equal length).
C15_LengthPartition ==
    /\ \A node \in DOMAIN rootNode \ {<<>>} :
          \A k \in 1..Len(rootNode[node]) :
              CacheHas(idToCluster, rootNode[node][k])
                => Itoa(Len(Cluster(idToCluster, rootNode[node][k]).Tokens)) = node[1]
    /\ ~panicked

\* C15 witness: the store holds clusters of two token counts, and the training
\* call just made attached its line to one of them
C15_Witness ==
    /\ lastCall.op \in TrainOps /\ ~lastCall.created /\ lastCall.ret # 0
    /\ Len(Cluster(idToCluster, lastCall.ret).Tokens) >= 2
    /\ \E id \in LiveIds(idToCluster) :
          Len(Cluster(idToCluster, id).Tokens)
            # Len(Cluster(idToCluster, lastCall.ret).Tokens)

\* C16 as claimed: right after a training call created a cluster, of any token
\* count, every id in the list of the node that lists the new cluster is the
\* id of a cluster of the store.
C16_LeafSwept ==
    [][(lastCall'.op \in TrainOps /\ lastCall'.created)
       => \A node \in DOMAIN rootNode' :
             (\E k \in 1..Len(rootNode'[node]) : rootNode'[node][k] = lastCall'.ret)
               => \A k \in 1..Len(rootNode'[node]) :
                     CacheHas(idToCluster', rootNode'[node][k])]_vars

\* C17 as claimed: the tree has at most (clusters of the store) x
\* LogClusterDepth nodes below the root.
C17_TreeTracksStore ==
    Cardinality(DOMAIN rootNode \ {<<>>}) <= Len(idToCluster) * config.LogClusterDepth

\* C18 as claimed: a training call leaves every template position that holds a
\* marked token (first byte 0) as it is.
C18_MarkedTokensKept ==
    [][lastCall'.op \in TrainOps
       => \A id \in LiveIds(idToCluster) \cap LiveIds(idToCluster') :
             \A i \in 1..Len(Cluster(idToCluster, id).Tokens) :
                 IsMarked(Cluster(idToCluster, id).Tokens[i])
                   => Cluster(idToCluster', id).Tokens[i]
                        = Cluster(idToCluster, id).Tokens[i]]_vars

\* C19 as claimed: in every state, for every token list, the walk of treeSearch
\* leaves the token of a position unchanged when it takes the placeholder edge
\* there because neither the token nor its normalised form is a key (it
\* rewrites the token only when the normalised form is the key taken).
C19_WildcardKeepsToken ==
    \A tokens \in Lines :
        (Len(tokens) >= 2 /\ <<Itoa(Len(tokens))>> \in DOMAIN rootNode) =>
            \A walk \in {SearchLoop(Machine(tokens, FreshArray), <<Itoa(Len(tokens))>>, 1)} :
                \A i \in 1..(Len(walk.node) - 1) :
                    (walk.node[i + 1] = ParamString /\ Preprocess(tokens[i]) # ParamString)
                      => walk.m.w[i] = tokens[i]

\* C20 as claimed: PatternString leaves every position of every template as it
\* is.
C20_PatternStringReadsOnly ==
    [][lastCall'.op = "PatternString"
       => \A id \in LiveIds(idToCluster) :
             Cluster(idToCluster', id).Tokens = Cluster(idToCluster, id).Tokens]_vars

====
